---- MODULE Spec2Model ----
(***************************************************************************)
(* Model of src/mulled.py: the MulledImageNameGenerator service class      *)
(* (parse_targets, generate_image_name, image_exists) and the PanelApp     *)
(* form (on_add, on_remove, on_reset, on_submit, view).                    *)
(*                                                                         *)
(* A Python str is a sequence of one-character strings, so that splitting, *)
(* stripping, joining and formatting are computed character by character.  *)
(* A SHA-1 hex digest is one opaque token that stands for its 40           *)
(* hexadecimal characters.                                                 *)
(***************************************************************************)
EXTENDS Integers, Sequences, FiniteSets, TLC

VARIABLES op, args, ret, tools_column

vars == <<op, args, ret, tools_column>>

(***************************************************************************)
(* Python values                                                           *)
(***************************************************************************)

\* Python's None, where a str is optional: a value no character sequence equals.
None == <<"<None>">>

\* The code points of the characters the inputs are written in (str comparison
\* in Python is by code point).
Ord(c) ==
    CASE c = "\n" -> 10
      [] c = " " -> 32
      [] c = "-" -> 45
      [] c = "." -> 46
      [] c = "0" -> 48
      [] c = "1" -> 49
      [] c = "2" -> 50
      [] c = "3" -> 51
      [] c = ":" -> 58
      [] c = "<" -> 60
      [] c = "=" -> 61
      [] c = ">" -> 62
      [] c = "a" -> 97
      [] c = "b" -> 98
      [] c = "g" -> 103
      [] c = "i" -> 105
      [] c = "m" -> 109
      [] OTHER -> 255

Digits == {"0", "1", "2", "3"}

\* str.strip() removes these (of the characters above, the space and the newline).
Whitespace == {" ", "\n"}

\* A call that returned v / that raised an exception of type t with message m.
\* steps counts what the call did before it ended: the entries of its input a
\* loop started on (parse_targets, on_submit), the requests sent (image_exists).
Return(v, n) == [raised |-> "", value |-> v, message |-> <<>>, steps |-> n]

Raise(t, m, n) == [raised |-> t, value |-> <<>>, message |-> m, steps |-> n]

\* s < t for two str, as Python compares them: lexicographic by code point.
RECURSIVE StrLess(_, _)
StrLess(s, t) ==
    IF t = <<>> THEN FALSE
    ELSE IF s = <<>> THEN TRUE
    ELSE IF Ord(Head(s)) # Ord(Head(t)) THEN Ord(Head(s)) < Ord(Head(t))
    ELSE StrLess(Tail(s), Tail(t))

\* s.strip(): s without its leading and trailing whitespace.
RECURSIVE LStrip(_)
LStrip(s) ==
    IF s # <<>> /\ Head(s) \in Whitespace THEN LStrip(Tail(s)) ELSE s

RECURSIVE RStrip(_)
RStrip(s) ==
    IF s # <<>> /\ s[Len(s)] \in Whitespace
    THEN RStrip(SubSeq(s, 1, Len(s) - 1))
    ELSE s

StripNone(s) == s

Strip(s) == RStrip(LStrip(s))

\* sep.join(parts)
RECURSIVE Join(_, _)
Join(sep, parts) ==
    IF parts = <<>> THEN <<>>
    ELSE IF Len(parts) = 1 THEN parts[1]
    ELSE parts[1] \o sep \o Join(sep, Tail(parts))

\* str(n) for an int n >= 0: its decimal digits, no leading zeros.
DigitChar(d) ==
    CASE d = 0 -> "0" [] d = 1 -> "1" [] d = 2 -> "2" [] d = 3 -> "3"
      [] d = 4 -> "4" [] d = 5 -> "5" [] d = 6 -> "6" [] d = 7 -> "7"
      [] d = 8 -> "8" [] d = 9 -> "9"

RECURSIVE str(_)
str(n) ==
    IF n < 10 THEN <<DigitChar(n)>>
    ELSE Append(str(n \div 10), DigitChar(n % 10))

(***************************************************************************)
(* MulledImageNameGenerator.parse_targets                                  *)
(***************************************************************************)

\* The index of the first "=" of s at or after i, or 0.
RECURSIVE FindEq(_, _)
FindEq(s, i) ==
    IF i > Len(s) THEN 0
    ELSE IF s[i] = "=" THEN i
    ELSE FindEq(s, i + 1)

\* Splitting at every match of "==?" instead of the first one only.
RECURSIVE re_split_all(_)
re_split_all(s) ==
    LET i == FindEq(s, 1)
        n == IF i < Len(s) /\ s[i + 1] = "=" THEN 2 ELSE 1
    IN  IF i = 0 THEN <<s>>
        ELSE <<SubSeq(s, 1, i - 1)>> \o re_split_all(SubSeq(s, i + n, Len(s)))

\* _split_pattern.split(spec, maxsplit=1) with _split_pattern = "==?": the text
\* before the first "=" and the text after it, the match taking a second "="
\* when one follows (the "?" is greedy); the whole text when there is no "=".
re_split(s) ==
    LET i == FindEq(s, 1)
        n == IF i < Len(s) /\ s[i + 1] = "=" THEN 2 ELSE 1
    IN  IF i = 0 THEN <<s>>
        ELSE <<SubSeq(s, 1, i - 1), SubSeq(s, i + n, Len(s))>>

\* [0-9]+(\.[0-9]+)* : the release segment of a version.
IsRelease(s) ==
    /\ s # <<>>
    /\ \A i \in 1..Len(s) : s[i] \in Digits \cup {"."}
    /\ s[1] \in Digits
    /\ s[Len(s)] \in Digits
    /\ \A i \in 1..(Len(s) - 1) : ~(s[i] = "." /\ s[i + 1] = ".")

\* [-_.]?(a|b|...)[-_.]?[0-9]* : the pre-release segment, for the letters a and
\* b and the separator ".".
IsPre(s) ==
    \E i \in 1..Len(s) :
        /\ s[i] \in {"a", "b"}
        /\ i \in {1, 2}
        /\ (i = 2 => s[1] = ".")
        /\ \E j \in i..Len(s) :
            /\ j \in {i, i + 1}
            /\ (j = i + 1 => s[j] = ".")
            /\ \A k \in (j + 1)..Len(s) : s[k] \in Digits

\* Version(version) does not raise InvalidVersion: the text matches
\* \s* release pre? \s* , which is the version pattern of the packaging library
\* on texts written with the characters of SpecStrings: digits, a, b, ".", "=",
\* "<", ">" and the space (no epoch, post, dev or local segment can be written
\* with them).
IsPEP440(version) ==
    LET v == RStrip(LStrip(version))
    IN  \E i \in 1..Len(v) :
            /\ IsRelease(SubSeq(v, 1, i))
            /\ (i < Len(v) => IsPre(SubSeq(v, i + 1, Len(v))))

\* The two messages of parse_targets.
FormatMessage(spec) ==
    [text |-> "does not have the expected format", version |-> None, spec |-> spec]

VersionMessage(version, spec) ==
    [text |-> "Not a PEP440 version spec", version |-> version, spec |-> spec]

\* The loop of parse_targets from entry i on, result holding the pairs so far.
RECURSIVE parse_loop(_, _, _)
parse_loop(specifications, i, result) ==
    IF i > Len(specifications) THEN Return(result, i - 1)
    ELSE
        LET spec == specifications[i]
            parts == re_split(spec)
        IN  IF Len(parts) # 2
            THEN Raise("ValueError", FormatMessage(spec), i)
            ELSE IF ~IsPEP440(parts[2])
            THEN Raise("ValueError", VersionMessage(parts[2], spec), i)
            ELSE parse_loop(specifications, i + 1,
                            Append(result, <<Strip(parts[1]), Strip(parts[2])>>))

\* A parse that skips the entries it cannot parse and returns the others.
RECURSIVE parse_skip(_, _, _)
parse_skip(specifications, i, result) ==
    IF i > Len(specifications) THEN Return(result, i - 1)
    ELSE
        LET parts == re_split(specifications[i])
        IN  IF Len(parts) # 2 \/ ~IsPEP440(parts[2])
            THEN parse_skip(specifications, i + 1, result)
            ELSE parse_skip(specifications, i + 1,
                            Append(result, <<Strip(parts[1]), Strip(parts[2])>>))

parse_targets_skipping(specifications) == parse_skip(specifications, 1, <<>>)

parse_targets(specifications) == parse_loop(specifications, 1, <<>>)

(***************************************************************************)
(* MulledImageNameGenerator.generate_image_name, with the two functions it *)
(* imports from galaxy.tool_util.deps.mulled.util (build_target and        *)
(* v2_image_name, which decide every name it returns). The three names     *)
(* test_generate_image_name expects fix the hashed form: for chromap 0.2.1 *)
(* and samtools 1.15, 1f09f3... is the SHA-1 of "chromap\nsamtools" and    *)
(* bd74d0... the SHA-1 of "0.2.1\n1.15"; for pysam 0.16.0.1 and biopython  *)
(* 1.78, 185a25... is the SHA-1 of "1.78\n0.16.0.1", the versions in the   *)
(* order of the sorted names.                                              *)
(***************************************************************************)

\* hashlib.sha1(data).hexdigest(): one token for the 40 hexadecimal characters,
\* a different one for each data.
Sha1(data) == ToString([sha1 |-> data])

\* build_target(name, version): a Target with no build.
build_target(package_name, version) ==
    [package_name |-> package_name, version |-> version, build |-> None]

\* sorted(targets, key=lambda t: t.package_name): a stable sort, so targets of
\* the same package name keep the order they came in.
RECURSIVE InsertByName(_, _)
InsertByName(t, s) ==
    IF s = <<>> THEN <<t>>
    ELSE IF StrLess(t.package_name, Head(s).package_name) THEN <<t>> \o s
    ELSE <<Head(s)>> \o InsertByName(t, Tail(s))

RECURSIVE sorted_by_package_name(_)
sorted_by_package_name(targets) ==
    IF targets = <<>> THEN <<>>
    ELSE InsertByName(targets[Len(targets)],
                      sorted_by_package_name(SubSeq(targets, 1, Len(targets) - 1)))

\* _simple_image_name(targets, image_build): the name of a single package's
\* image, "<name>:<version>", and "--<build>" for an image_build other than "0".
simple_image_name(targets, image_build) ==
    LET target == targets[1]
        build == IF target.build = None /\ image_build # None /\ image_build # <<"0">>
                 THEN image_build
                 ELSE target.build
    IN  target.package_name \o <<":">> \o target.version
            \o (IF build # None THEN <<"-", "-">> \o build ELSE <<>>)

MulledPrefix == <<"m", "u", "l", "l", "e", "d", "-", "v", "2", "-">>

\* v2_image_name(targets, image_build, name_override)
v2_image_name(targets, image_build, name_override) ==
    IF name_override # None THEN Return(name_override, 0)
    ELSE IF Len(targets) = 0
    THEN Raise("Exception", <<"Invalid number of targets supplied [0]">>, 0)
    ELSE IF Len(targets) = 1
    THEN Return(simple_image_name(targets, image_build), 0)
    ELSE
        LET targets_order == sorted_by_package_name(targets)
            n == Len(targets_order)
            package_hash ==
                Sha1(Join(<<"\n">>, [i \in 1..n |-> targets_order[i].package_name]))
            any_version == \E i \in 1..n : targets_order[i].version # <<>>
            version_buffer ==
                Join(<<"\n">>,
                     [i \in 1..n |->
                        IF targets_order[i].version # <<>>
                        THEN targets_order[i].version
                        ELSE <<"n", "u", "l", "l">>])
            version_hash_str == IF any_version THEN <<Sha1(version_buffer)>> ELSE <<>>
            build_suffix ==
                IF image_build = None \/ image_build = <<>> THEN <<>>
                ELSE IF version_hash_str # <<>> THEN <<"-">> \o image_build
                ELSE image_build
            suffix ==
                IF version_hash_str # <<>> \/ build_suffix # <<>>
                THEN <<":">> \o version_hash_str \o build_suffix
                ELSE <<>>
        IN  Return(MulledPrefix \o <<package_hash>> \o suffix, 0)

\* generate_image_name without the image_build argument.
generate_image_name_no_build(targets, base_image, build_number) ==
    v2_image_name([i \in 1..Len(targets) |-> build_target(targets[i][1], targets[i][2])],
                  None, base_image)

generate_image_name(targets, base_image, build_number) ==
    v2_image_name([i \in 1..Len(targets) |-> build_target(targets[i][1], targets[i][2])],
                  str(build_number), base_image)

(***************************************************************************)
(* MulledImageNameGenerator.image_exists                                   *)
(***************************************************************************)

\* What requests.get(quay_url, allow_redirects=True) can do: return a response
\* with a status code, or raise (no connection, a timeout, too many redirects).
StatusCodes == {200, 204, 404, 500}

HttpOutcomes ==
    {[raises |-> FALSE, status_code |-> c] : c \in StatusCodes}
        \cup {[raises |-> TRUE, status_code |-> 0]}

\* image_exists(image_name), the request ending as http says: the one
\* requests.get is outside any try, so what it raises leaves image_exists.
image_exists(image_name, http) ==
    IF http.raises THEN Raise("ConnectionError", <<image_name>>, 1)
    ELSE IF http.status_code = 200 THEN Return(TRUE, 1)
    ELSE Return(FALSE, 1)

(***************************************************************************)
(* The calls of the service class                                          *)
(***************************************************************************)

MaxSpecs == 2

MaxTargets == 2

SeqsUpTo(S, n) == UNION {[1..k -> S] : k \in 0..n}

\* The specification strings the calls of parse_targets are given.
SpecStrings ==
    { <<"a", "=", "1">>,                          \* a=1
      <<"b", "=", "=", "2", ".", "0">>,           \* b==2.0
      <<" ", "a", " ", "=", " ", "1", "b", " ">>, \* " a = 1b "
      <<"a", "=", "=", "1", ".", "b", "1", "b">>, \* a==1.b1b
      <<"b", "=", "0", "a", ".", "1">>,           \* b=0a.1
      <<"a", "<", "1">>,                          \* a<1
      <<"b", ">", "=", "1">>,                     \* b>=1
      <<"a">>,
      <<>>,
      <<"=", "1">>,                               \* =1
      <<" ", "=", "=", "1">>,                     \* " ==1"
      <<"a", "=">>,                               \* a=
      <<"a", "=", "1", "=", "2">>,                \* a=1=2
      <<"a", "=", "=", "=", "1">> }               \* a===1

\* The tool names and versions the calls of generate_image_name are given.
Names == {<<"a">>, <<"b">>, <<"a", "b">>}

Versions == {<<"1">>, <<"2">>, <<>>}

BaseImages == {None, <<"i", "m", "g">>}

BuildNumbers == {0, 3, 10}

\* The image names image_exists is asked about.
ImageNames ==
    {generate_image_name(t, None, 0).value :
        t \in SeqsUpTo(Names \X Versions, MaxTargets) \ {<<>>}}

\* view(): the column holds one row of two empty inputs.
layout_tool_input ==
    [type |-> "Row",
     objects |-> <<[type |-> "TextInput", name |-> "Tool", value |-> <<>>],
                   [type |-> "TextInput", name |-> "Version", value |-> <<>>]>>]

Init ==
    /\ op = "view"
    /\ args = <<>>
    /\ ret = Return(None, 0)
    /\ tools_column = <<layout_tool_input>>

\* The class methods read and write no state of the program, so every call is
\* taken from the state the import of the module leaves.
ParseTargets ==
    \E specifications \in SeqsUpTo(SpecStrings, MaxSpecs) :
        /\ op = "view"
        /\ op' = "parse_targets"
        /\ args' = [specifications |-> specifications]
        /\ ret' = parse_targets(specifications)
        /\ UNCHANGED tools_column

GenerateImageName ==
    \E targets \in SeqsUpTo(Names \X Versions, MaxTargets),
       base_image \in BaseImages, build_number \in BuildNumbers :
        /\ op = "view"
        /\ op' = "generate_image_name"
        /\ args' = [targets |-> targets, base_image |-> base_image,
                    build_number |-> build_number]
        /\ ret' = generate_image_name(targets, base_image, build_number)
        /\ UNCHANGED tools_column

ImageExists ==
    \E image_name \in ImageNames, http \in HttpOutcomes :
        /\ op = "view"
        /\ op' = "image_exists"
        /\ args' = [image_name |-> image_name, http |-> http]
        /\ ret' = image_exists(image_name, http)
        /\ UNCHANGED tools_column

Next == ParseTargets \/ GenerateImageName \/ ImageExists

Spec == Init /\ [][Next]_vars

(***************************************************************************)
(* PanelApp: the handlers of the four buttons, on the column of the form   *)
(***************************************************************************)

MaxRows == 3

\* What the user types into the inputs of a row.
ToolValues == {<<>>, <<"a">>, <<" ", "b">>}

VersionValues == {<<>>, <<"1">>}

\* pn.Row(text) of on_submit: a row of one HTML pane showing the image name.
ResultRow(image) ==
    [type |-> "Row",
     objects |-> <<[type |-> "HTML", name |-> "", value |-> image]>>]

\* pn.pane.Markdown of on_submit: the link to the image and whether it exists.
LinkPane(image, exists) ==
    [type |-> "Markdown",
     objects |-> <<[type |-> "link",
                    name |-> IF exists THEN "found" ELSE "not found",
                    value |-> image]>>]

\* The loop of on_submit from element i of the column on: row[:] of a pane that
\* is no Row raises TypeError, unpacking other than two objects raises
\* ValueError, .value of an object that has none raises AttributeError.
RECURSIVE collect_tools(_, _, _)
collect_tools(column, i, tools) ==
    IF i > Len(column) THEN Return(tools, i - 1)
    ELSE
        LET row == column[i]
        IN  IF row.type # "Row"
            THEN Raise("TypeError", <<"object is not subscriptable">>, i)
            ELSE IF Len(row.objects) # 2
            THEN Raise("ValueError", <<"expected 2 values to unpack">>, i)
            ELSE IF \E k \in 1..2 : row.objects[k].type # "TextInput"
            THEN Raise("AttributeError", <<"object has no attribute value">>, i)
            ELSE collect_tools(column, i + 1,
                               Append(tools, <<Strip(row.objects[1].value),
                                               Strip(row.objects[2].value)>>))

\* on_submit, the request of image_exists ending as http says: the outcome of
\* the handler and the column it leaves. An exception leaves the column as it
\* was when it was raised.
on_submit(column, http) ==
    LET tools == collect_tools(column, 1, <<>>)
        image == generate_image_name(tools.value, None, 0)
        exists == image_exists(image.value, http)
    IN  IF tools.raised # "" THEN [ret |-> tools, column |-> column]
        ELSE IF image.raised # ""
        THEN [ret |-> Raise(image.raised, image.message, tools.steps), column |-> column]
        ELSE IF exists.raised # ""
        THEN [ret |-> Raise(exists.raised, exists.message, tools.steps),
              column |-> <<ResultRow(image.value)>>]
        ELSE [ret |-> Return(None, tools.steps),
              column |-> <<ResultRow(image.value),
                           LinkPane(image.value, exists.value)>>]

OnAdd ==
    /\ Len(tools_column) < MaxRows
    /\ op' = "on_add"
    /\ args' = <<>>
    /\ ret' = Return(None, 0)
    /\ tools_column' = Append(tools_column, layout_tool_input)

OnRemove ==
    /\ op' = "on_remove"
    /\ args' = <<>>
    /\ ret' = Return(None, 0)
    /\ tools_column' = SubSeq(tools_column, 1, Len(tools_column) - 1)

OnReset ==
    /\ op' = "on_reset"
    /\ args' = <<>>
    /\ ret' = Return(None, 0)
    /\ tools_column' = <<layout_tool_input>>

OnSubmit ==
    \E http \in HttpOutcomes :
        /\ op' = "on_submit"
        /\ args' = [http |-> http]
        /\ ret' = on_submit(tools_column, http).ret
        /\ tools_column' = on_submit(tools_column, http).column

\* The user types into the Tool and Version inputs of row i.
TypeValues ==
    \E i \in 1..Len(tools_column), tool \in ToolValues, version \in VersionValues :
        /\ tools_column[i].type = "Row"
        /\ Len(tools_column[i].objects) = 2
        /\ tools_column' =
             [tools_column EXCEPT ![i].objects[1].value = tool,
                                  ![i].objects[2].value = version]
        /\ UNCHANGED <<op, args, ret>>

AppNext == OnAdd \/ OnRemove \/ OnReset \/ OnSubmit \/ TypeValues

AppSpec == Init /\ [][AppNext]_vars

(***************************************************************************)
(* Properties of parse_targets                                             *)
(***************************************************************************)

HasSeparator(s) == \E i \in 1..Len(s) : s[i] = "="

\* t is s without its leading and trailing whitespace.
IsTrimOf(t, s) ==
    /\ t = <<>> \/ (t[1] \notin Whitespace /\ t[Len(t)] \notin Whitespace)
    /\ \E i \in 0..Len(s) :
        /\ i + Len(t) <= Len(s)
        /\ SubSeq(s, i + 1, i + Len(t)) = t
        /\ \A k \in 1..i : s[k] \in Whitespace
        /\ \A k \in (i + Len(t) + 1)..Len(s) : s[k] \in Whitespace

\* The ways to read s as <tool>=<version> or <tool>==<version>, the tool
\* holding no "=" and the version being a valid one.
Readings(s) ==
    {r \in {[tool |-> SubSeq(s, 1, i), version |-> SubSeq(s, i + n + 1, Len(s))] :
                i \in 0..Len(s), n \in 1..2} :
        /\ Len(r.tool) + Len(r.version) < Len(s)
        /\ \A k \in (Len(r.tool) + 1)..(Len(s) - Len(r.version)) : s[k] = "="
        /\ ~HasSeparator(r.tool)
        /\ IsPEP440(r.version)}

\* An entry parse_targets rejects: no separator, or an invalid version after
\* the first one.
Offending(s) == ~HasSeparator(s) \/ ~IsPEP440(re_split(s)[2])

FirstOffending(specifications) ==
    CHOOSE k \in 1..Len(specifications) :
        /\ Offending(specifications[k])
        /\ \A j \in 1..(k - 1) : ~Offending(specifications[j])

\* C3: when every string is <tool>=<version> or <tool>==<version> with a valid
\* version, parse_targets returns as many pairs as strings, the i-th the tool
\* and the version of the i-th string without their surrounding whitespace,
\* whichever separator is written.
C3_ParsesValidSpecs ==
    (/\ op = "parse_targets"
     /\ \A i \in 1..Len(args.specifications) : Readings(args.specifications[i]) # {})
    => /\ ret.raised = ""
       /\ Len(ret.value) = Len(args.specifications)
       /\ \A i \in 1..Len(args.specifications) :
            \A r \in Readings(args.specifications[i]) :
                /\ IsTrimOf(ret.value[i][1], r.tool)
                /\ IsTrimOf(ret.value[i][2], r.version)

C3_Witness ==
    /\ op = "parse_targets"
    /\ args.specifications =
         << <<" ", "a", " ", "=", " ", "1", "b", " ">>,
            <<"b", "=", "=", "2", ".", "0">> >>
    /\ ret.value = << <<<<"a">>, <<"1", "b">>>>, <<<<"b">>, <<"2", ".", "0">>>> >>

\* C4: when some entry is rejected, parse_targets raises the error of the first
\* such entry (the format error if it has no separator, the PEP440 error
\* otherwise), has started on no entry after it, and returns no pairs.
C4_FailFast ==
    (/\ op = "parse_targets"
     /\ \E k \in 1..Len(args.specifications) : Offending(args.specifications[k]))
    => LET k == FirstOffending(args.specifications)
           spec == args.specifications[k]
       IN  /\ ret.raised = "ValueError"
           /\ ret.value = <<>>
           /\ ret.steps = k
           /\ ret.message.spec = spec
           /\ ret.message.text =
                IF HasSeparator(spec) THEN "Not a PEP440 version spec"
                ELSE "does not have the expected format"

C4_Witness ==
    /\ op = "parse_targets"
    /\ Len(args.specifications) = 2
    /\ ~Offending(args.specifications[1])
    /\ Offending(args.specifications[2])
    /\ ret.raised = "ValueError"

\* C5: when the first rejected entry has a separator, the error is the PEP440
\* error, and it names the entry and, as the version, all of the entry after
\* its first "=" or "==", further "=" included.
C5_InvalidVersion ==
    (/\ op = "parse_targets"
     /\ \E k \in 1..Len(args.specifications) : Offending(args.specifications[k])
     /\ HasSeparator(args.specifications[FirstOffending(args.specifications)]))
    => LET spec == args.specifications[FirstOffending(args.specifications)]
           version == ret.message.version
       IN  /\ ret.raised = "ValueError"
           /\ ret.message.text = "Not a PEP440 version spec"
           /\ ret.message.spec = spec
           /\ version # None
           /\ \E i \in 1..Len(spec), n \in 1..2 :
                /\ ~HasSeparator(SubSeq(spec, 1, i - 1))
                /\ \A k \in i..(i + n - 1) : k <= Len(spec) /\ spec[k] = "="
                /\ (n = 1 => (i = Len(spec) \/ spec[i + 1] # "="))
                /\ version = SubSeq(spec, i + n, Len(spec))

C5_Witness ==
    /\ op = "parse_targets"
    /\ args.specifications = << <<"a", "=", "1", "=", "2">> >>
    /\ ret.raised = "ValueError"
    /\ ret.message.version = <<"1", "=", "2">>

\* C6: a first entry that does not split into two parts that are non-empty
\* once trimmed makes parse_targets raise the format error naming it, and
\* every pair parse_targets returns has a non-empty name and version.
C6_NonEmptyParts ==
    op = "parse_targets" =>
        /\ (/\ Len(args.specifications) >= 1
            /\ LET parts == re_split(args.specifications[1])
               IN  \/ Len(parts) # 2
                   \/ Strip(parts[1]) = <<>>
                   \/ Strip(parts[2]) = <<>>)
           => /\ ret.raised = "ValueError"
              /\ ret.message.text = "does not have the expected format"
              /\ ret.message.spec = args.specifications[1]
        /\ ret.raised = "" =>
              \A i \in 1..Len(ret.value) :
                  ret.value[i][1] # <<>> /\ ret.value[i][2] # <<>>

(***************************************************************************)
(* Properties of generate_image_name and image_exists                      *)
(***************************************************************************)

Perms(n) == {p \in [1..n -> 1..n] : \A i, j \in 1..n : i # j => p[i] # p[j]}

Permuted(seq, p) == [i \in 1..Len(seq) |-> seq[p[i]]]

\* The strings of seq in ascending order.
Ascending(seq) ==
    Permuted(seq, CHOOSE p \in Perms(Len(seq)) :
                    \A i \in 1..(Len(seq) - 1) : ~StrLess(seq[p[i + 1]], seq[p[i]]))

\* The targets ordered by name, those of one name in the order they were given.
ByName(targets) ==
    Permuted(targets, CHOOSE p \in Perms(Len(targets)) :
                        \A i, j \in 1..Len(targets) :
                            i < j =>
                                \/ StrLess(targets[p[i]][1], targets[p[j]][1])
                                \/ /\ targets[p[i]][1] = targets[p[j]][1]
                                   /\ p[i] < p[j])

Count(s, c) == Cardinality({i \in 1..Len(s) : s[i] = c})

StartsWith(s, prefix) ==
    Len(prefix) <= Len(s) /\ SubSeq(s, 1, Len(prefix)) = prefix

EndsWith(s, suffix) ==
    Len(suffix) <= Len(s) /\ SubSeq(s, Len(s) - Len(suffix) + 1, Len(s)) = suffix

\* The number a sequence of decimal digits writes.
RECURSIVE DecimalValue(_)
DecimalValue(d) ==
    IF d = <<>> THEN 0
    ELSE 10 * DecimalValue(SubSeq(d, 1, Len(d) - 1))
            + (CHOOSE v \in 0..9 : DigitChar(v) = d[Len(d)])

IsDecimalOf(d, n) ==
    /\ d # <<>>
    /\ \A i \in 1..Len(d) : \E v \in 0..9 : d[i] = DigitChar(v)
    /\ Len(d) > 1 => d[1] # "0"
    /\ DecimalValue(d) = n

\* The canonical string of a target, name=version.
TargetString(t) == t[1] \o <<"=">> \o t[2]

\* The start of a hashed image name: mulled-v2-<package_hash>:<version_hash>-
HashedStem(names, hashed) ==
    MulledPrefix \o <<Sha1(Join(<<"\n">>, names))>> \o <<":">>
        \o <<Sha1(Join(<<"\n">>, hashed))>> \o <<"-">>

C2_OrderIndependent ==
    op = "generate_image_name" =>
        \A p \in Perms(Len(args.targets)) :
            generate_image_name(Permuted(args.targets, p), args.base_image,
                                args.build_number) = ret

\* C7: with no targets, generate_image_name raises, whatever the base image
\* and the build number.
C7_EmptyTargetsRaise ==
    (op = "generate_image_name" /\ args.targets = <<>>) => ret.raised # ""

\* C8: with a base image and one or more targets, the name is
\* <base image>:<version_hash>-<build number>, its tag being the one of the
\* name generated without the base image.
C8_BaseImageKeepsTag ==
    (/\ op = "generate_image_name"
     /\ args.base_image # None
     /\ Len(args.targets) >= 1)
    => LET plain == generate_image_name(args.targets, None, args.build_number).value
           colon == CHOOSE i \in 1..Len(plain) : plain[i] = ":"
       IN  /\ ret.raised = ""
           /\ ret.value = args.base_image \o SubSeq(plain, colon, Len(plain))

\* C9: image_exists sends one request, never raises, and returns True exactly
\* when the request is answered with status 200.
C9_NeverRaises ==
    op = "image_exists" =>
        /\ ret.raised = ""
        /\ ret.steps = 1
        /\ ret.value = (~args.http.raises /\ args.http.status_code = 200)

(***************************************************************************)
(* Properties of PanelApp                                                  *)
(***************************************************************************)

IsInputRow(row) ==
    /\ row.type = "Row"
    /\ Len(row.objects) = 2
    /\ \A k \in 1..2 : row.objects[k].type = "TextInput"

\* C10: after any clicks on Add Tool, Remove Tool, Reset and Generate Image
\* Name, the column is not empty and holds only rows of two inputs, and no
\* on_submit has raised.
C10_ColumnOfInputRows ==
    /\ tools_column # <<>>
    /\ \A i \in 1..Len(tools_column) : IsInputRow(tools_column[i])
    /\ op = "on_submit" => ret.raised = ""

====
